---- MODULE Spec2Model ----
(***************************************************************************)
(* CE_Agent orchestration core: TaskPlanner (rule path and LLM path with   *)
(* fallback), ContextManager, and the Agent's execute / run / stop /       *)
(* submit_task, modelled as a state machine.                               *)
(***************************************************************************)
EXTENDS Integers, Sequences, FiniteSets, TLC

(***************************************************************************)
(* Bounds of the model.                                                    *)
(***************************************************************************)
MaxSubmits == 2
MaxStops == 1
MaxRuns == 1
MaxDirect == 1
MaxHistory == 6
MaxToolHistory == 3
MaxWords == 2
MaxCalls == 2
MaxBatch == 3

(***************************************************************************)
(* TaskPlanner, rule path.                                                 *)
(*                                                                         *)
(* A request is a string; identify_intent only asks which of its eight     *)
(* regular expressions match it, in list order.  A request is modelled by  *)
(* the set of intents whose pattern matches request.lower().               *)
(***************************************************************************)
IntentOrder ==
    << "search", "analyze", "read", "modify", "debug", "structure", "function", "memory" >>

Intents == { IntentOrder[k] : k \in 1..Len(IntentOrder) }

Requests == SUBSET Intents

identify_intent(request) ==
    IF \E k \in 1..Len(IntentOrder) : IntentOrder[k] \in request
    THEN LET first == CHOOSE k \in 1..Len(IntentOrder) :
                          /\ IntentOrder[k] \in request
                          /\ \A m \in 1..(k - 1) : IntentOrder[m] \notin request
         IN  IntentOrder[first]
    ELSE "general"

classify_task(intent) ==
    CASE intent = "structure" -> "DATA_STRUCTURE_ANALYSIS"
      [] intent = "function"  -> "FUNCTION_ANALYSIS"
      [] intent = "search"    -> "PATTERN_SEARCH"
      [] intent = "debug"     -> "BREAKPOINT_DEBUGGING"
      [] intent = "analyze"   -> "COMPREHENSIVE_ANALYSIS"
      [] intent = "general"   -> "COMPREHENSIVE_ANALYSIS"
      [] OTHER                -> "COMPREHENSIVE_ANALYSIS"

SubTask(id, tools, dependencies) ==
    [id |-> id, tools |-> tools, dependencies |-> dependencies]

decompose_task(task_type) ==
    CASE task_type = "DATA_STRUCTURE_ANALYSIS" ->
           << SubTask(1, <<"get_process_info">>, <<>>),
              SubTask(2, <<"get_memory_regions">>, <<1>>),
              SubTask(3, <<"scan_all", "generate_signature">>, <<2>>),
              SubTask(4, <<"disassemble", "analyze_function">>, <<3>>) >>
      [] task_type = "FUNCTION_ANALYSIS" ->
           << SubTask(1, <<"enum_modules", "get_symbol_address">>, <<>>),
              SubTask(2, <<"disassemble", "get_instruction_info">>, <<1>>),
              SubTask(3, <<"find_function_boundaries", "find_references">>, <<2>>),
              SubTask(4, <<"analyze_function", "find_call_references">>, <<3>>) >>
      [] task_type = "PATTERN_SEARCH" ->
           << SubTask(1, <<"get_process_info">>, <<>>),
              SubTask(2, <<"get_memory_regions">>, <<1>>),
              SubTask(3, <<"scan_all">>, <<2>>),
              SubTask(4, <<"aob_scan", "search_string">>, <<3>>),
              SubTask(5, <<"generate_signature">>, <<4>>) >>
      [] task_type = "BREAKPOINT_DEBUGGING" ->
           << SubTask(1, <<"get_process_info">>, <<>>),
              SubTask(2, <<"get_symbol_address", "disassemble">>, <<1>>),
              SubTask(3, <<"set_breakpoint">>, <<2>>),
              SubTask(4, <<"get_breakpoint_hits", "read_memory">>, <<3>>),
              SubTask(5, <<"analyze_function", "disassemble">>, <<4>>) >>
      [] task_type = "COMPREHENSIVE_ANALYSIS" ->
           << SubTask(1, <<"get_process_info", "enum_modules">>, <<>>),
              SubTask(2, <<"get_memory_regions">>, <<1>>),
              SubTask(3, <<"scan_all", "aob_scan">>, <<2>>),
              SubTask(4, <<"disassemble", "analyze_function", "read_memory">>, <<3>>),
              SubTask(5, <<"generate_signature", "find_references">>, <<4>>) >>
      [] OTHER -> << >>

ExecutionPlan(task_type, subtasks) ==
    [task_type |-> task_type, subtasks |-> subtasks, estimated_steps |-> Len(subtasks)]

\* A planner whose templates name the subtask itself as its prerequisite.
plan_with_rules_self_dependent(request) ==
    LET task_type == classify_task(identify_intent(request))
        subtasks == decompose_task(task_type)
    IN  ExecutionPlan(task_type,
                      [i \in 1..Len(subtasks) |->
                          IF subtasks[i].dependencies = << >>
                          THEN subtasks[i]
                          ELSE [subtasks[i] EXCEPT !.dependencies = << subtasks[i].id >>]])

plan_with_rules(request) ==
    LET task_type == classify_task(identify_intent(request))
    IN  ExecutionPlan(task_type, decompose_task(task_type))

(***************************************************************************)
(* TaskPlanner, LLM path.                                                  *)
(*                                                                         *)
(* One behaviour of the language model for one chat call:                  *)
(*   raise       ollama_client.chat raises                                 *)
(*   no_content  the response has no message.content                       *)
(*   no_json     _extract_json finds nothing that json.loads accepts       *)
(*   non_object  json.loads yields a list or a scalar (json_obj.get raises *)
(*               inside parse_task_plan, which returns None)               *)
(*   object      json.loads yields a dict, given by `json`: the keys it    *)
(*               holds are its DOMAIN.  "subtasks" is a tagged value:      *)
(*               null, bad (a value or items _parse_llm_subtasks or the    *)
(*               SubTask model rejects by raising) or list (of dicts).     *)
(*               "task_type" is a tagged value: str or bad (not a string,  *)
(*               refused by the ExecutionPlan model).                      *)
(***************************************************************************)
Str(s) == [t |-> "str", v |-> s]
Bad == [t |-> "bad"]
Null == [t |-> "null"]
List(items) == [t |-> "list", v |-> items]

LLMObjects ==
    { << >>,
      [task_type |-> Str("FUNCTION_ANALYSIS"), subtasks |-> List(<< >>)],
      [subtasks |-> Null],
      [subtasks |-> Bad],
      [task_type |-> Bad, subtasks |-> List(<< [tools |-> <<"ping">>] >>)],
      [subtasks |-> List(<< [tools |-> <<"ping">>] >>)],
      [task_type |-> Str("custom"),
       subtasks |-> List(<< [id |-> 1, tools |-> <<"read_memory">>, dependencies |-> <<2>>],
                            [id |-> 2, tools |-> <<"ping", "disassemble">>, dependencies |-> << >>] >>)],
      [subtasks |-> List(<< [id |-> 1, dependencies |-> << >>],
                            [id |-> 2, tools |-> <<"ping">>, dependencies |-> <<1>>],
                            [id |-> 3, tools |-> <<"get_process_info">>] >>)],
      [subtasks |-> List(<< [id |-> 1, tools |-> <<"ping">>, dependencies |-> <<7>>],
                            [id |-> 1, tools |-> <<"ping">>, dependencies |-> <<1>>] >>)] }

LLMBehaviours ==
    { [kind |-> k] : k \in {"raise", "no_content", "no_json", "non_object"} }
      \cup { [kind |-> "object", json |-> o] : o \in LLMObjects }

None == [none |-> TRUE]

Get(dict, key, default) == IF key \in DOMAIN dict THEN dict[key] ELSE default

\* ResponseParser.parse_task_plan: None, or the dict {task_type, subtasks}.
parse_task_plan(llm) ==
    IF llm.kind \in {"no_json", "non_object"}
    THEN None
    ELSE [task_type |-> Get(llm.json, "task_type", Str("COMPREHENSIVE_ANALYSIS")),
          subtasks |-> Get(llm.json, "subtasks", List(<< >>))]

\* TaskPlanner._parse_llm_subtasks on a list of dicts (enumerate is 0-based,
\* the default id is i + 1, which is the 1-based position).
parse_llm_subtasks(items) ==
    [i \in 1..Len(items) |->
        SubTask(Get(items[i], "id", i),
                Get(items[i], "tools", << >>),
                Get(items[i], "dependencies", << >>))]

\* Whether building the plan from the parsed dict raises (lines 86-95).
llm_plan_raises(task_plan) ==
    \/ task_plan.subtasks.t # "list"
    \/ task_plan.task_type.t # "str"

\* Whether _plan_with_llm returns the plan built from the response (line 100)
\* rather than the rule-based one (lines 105 and 110).
llm_plan_used(llm) ==
    /\ llm.kind \notin {"raise", "no_content"}
    /\ parse_task_plan(llm) # None
    /\ ~llm_plan_raises(parse_task_plan(llm))

plan_with_llm(request, llm) ==
    IF llm_plan_used(llm)
    THEN LET task_plan == parse_task_plan(llm)
         IN  ExecutionPlan(task_plan.task_type.v, parse_llm_subtasks(task_plan.subtasks.v))
    ELSE plan_with_rules(request)

\* TaskPlanner.plan.
plan(request, use_llm, llm) ==
    IF use_llm THEN plan_with_llm(request, llm) ELSE plan_with_rules(request)

(***************************************************************************)
(* Numbers.  progress and confidence are Python floats; the model keeps    *)
(* them as fractions n/d in lowest terms, so that 0.5, 0.7 and products    *)
(* with 0.7 are told apart exactly.                                        *)
(***************************************************************************)
RECURSIVE GCD(_, _)
GCD(a, b) == IF b = 0 THEN a ELSE GCD(b, a % b)

Rat(n, d) == [n |-> n \div GCD(n, d), d |-> d \div GCD(n, d)]

RatMul(x, y) == Rat(x.n * y.n, x.d * y.d)

RatLess(x, y) == x.n * y.d < y.n * x.d

RatMin(x, y) == IF RatLess(y, x) THEN y ELSE x

Max(a, b) == IF a >= b THEN a ELSE b

Min(a, b) == IF a <= b THEN a ELSE b

\* seq[-n:]
LastN(seq, n) == SubSeq(seq, Max(1, Len(seq) - n + 1), Len(seq))

(***************************************************************************)
(* ReasoningEngine.                                                        *)
(*                                                                         *)
(* A context is [state, history, current_step, execution_plan]; a history  *)
(* step is [step_id, tool_name, success].  A string built with an f-string *)
(* is a record of its fixed text and of the values formatted into it; a    *)
(* fixed string is the same record with step_id 0.                         *)
(***************************************************************************)
Issue(text, step_id) == [text |-> text, step_id |-> step_id]

\* The issue evaluate_state appends at line 219.
StuckIssue == Issue("Appears to be stuck in error loop", 0)

\* The value _make_decision_with_rules looks for at line 353.
StuckLiteral == Issue("stuck in error loop", 0)

StateEvaluation(current_state, progress, success, issues, recommendations) ==
    [current_state |-> current_state, progress |-> progress, success |-> success,
     issues |-> issues, recommendations |-> recommendations]

\* evaluate_state, lines 199-236 (nothing in them raises).
\* An evaluation that looks for errors among the last three steps only.
evaluate_state_recent_window(context) ==
    LET completed_steps == Len(SelectSeq(context.history, LAMBDA step : step.success))
        total_expected_steps == context.execution_plan.estimated_steps
        progress == RatMin(Rat(completed_steps, Max(total_expected_steps, 1)), Rat(1, 1))
        success == context.state # "failed" /\ RatLess(progress, Rat(1, 1))
        recent_errors == SelectSeq(LastN(context.history, 3), LAMBDA step : ~step.success)
        issues == [k \in 1..Len(recent_errors) |->
                      Issue("Recent error in step", recent_errors[k].step_id)]
        recommendations ==
            IF ~RatLess(progress, Rat(1, 1))
            THEN << "Task appears complete, finalize results" >>
            ELSE IF issues # << >>
            THEN << "Address identified issues before proceeding" >>
            ELSE << "Continue with planned execution" >>
    IN  StateEvaluation(context.state, progress, success, issues, recommendations)

evaluate_state(context) ==
    LET completed_steps == Len(SelectSeq(context.history, LAMBDA step : step.success))
        total_expected_steps == context.execution_plan.estimated_steps
        progress == RatMin(Rat(completed_steps, Max(total_expected_steps, 1)), Rat(1, 1))
        success == context.state # "failed" /\ RatLess(progress, Rat(1, 1))
        recent_errors == LastN(SelectSeq(context.history, LAMBDA step : ~step.success), 3)
        error_issues == [k \in 1..Len(recent_errors) |->
                            Issue("Recent error in step", recent_errors[k].step_id)]
        issues == IF /\ Len(context.history) > 0
                     /\ Len(recent_errors) = Len(LastN(context.history, 5))
                  THEN Append(error_issues, StuckIssue)
                  ELSE error_issues
        recommendations ==
            IF ~RatLess(progress, Rat(1, 1))
            THEN << "Task appears complete, finalize results" >>
            ELSE IF issues # << >>
            THEN << "Address identified issues before proceeding" >>
            ELSE << "Continue with planned execution" >>
    IN  StateEvaluation(context.state, progress, success, issues, recommendations)

\* What evaluate_state leaves of the context it was given: it only reads it.
context_after_evaluate_state_trimmed(context) ==
    [context EXCEPT !.history = LastN(context.history, 5)]

context_after_evaluate_state(context) == context

Decision(action, reason, confidence, next_steps) ==
    [action |-> action, reason |-> reason, confidence |-> confidence,
     next_steps |-> next_steps]

\* `x in list`: equality with an element.
InList(x, list) == \E k \in 1..Len(list) : list[k] = x

\* _make_decision_with_rules, lines 337-381.
make_decision_with_rules(evaluation, context) ==
    LET chosen ==
            IF evaluation.current_state = "completed"
            THEN Decision("finalize", "Task has been marked as completed",
                          evaluation.progress, << "Generate final report" >>)
            ELSE IF evaluation.current_state = "failed"
            THEN Decision("abort", "Task has been marked as failed",
                          evaluation.progress, << "Abort execution and report error" >>)
            ELSE IF evaluation.issues # << >>
            THEN IF InList(StuckLiteral, evaluation.issues)
                 THEN Decision("recover", "Detected error loop, attempting recovery",
                               Rat(1, 2), << "Try alternative tools or approaches" >>)
                 ELSE Decision("adjust", "Issues detected, need to adjust plan",
                               Rat(7, 10), evaluation.recommendations)
            ELSE IF ~RatLess(evaluation.progress, Rat(1, 1))
            THEN Decision("finalize", "Estimated steps completed",
                          evaluation.progress, << "Generate final report" >>)
            ELSE Decision("continue", "No major issues detected, continue with plan",
                          evaluation.progress, << "Execute next planned step" >>)
    IN  IF evaluation.issues # << >>
        THEN [chosen EXCEPT !.confidence = RatMul(@, Rat(7, 10))]
        ELSE chosen

\* _is_subtask_complete, lines 482-486.
is_subtask_complete_counting_calls(subtask, context) ==
    LET successful_tool_calls == SelectSeq(context.history, LAMBDA step : step.success)
        subtask_tools_used ==
            SelectSeq(successful_tool_calls, LAMBDA step : InList(step.tool_name, subtask.tools))
    IN  Len(subtask_tools_used) >= Max(1, Len(subtask.tools) \div 2)

is_subtask_complete(subtask, context) ==
    LET successful_tool_calls == SelectSeq(context.history, LAMBDA step : step.success)
        subtask_tools_used ==
            SelectSeq(successful_tool_calls, LAMBDA step : InList(step.tool_name, subtask.tools))
        used_set == { subtask_tools_used[k].tool_name : k \in 1..Len(subtask_tools_used) }
    IN  Cardinality(used_set) >= Max(1, Len(subtask.tools) \div 2)

\* _suggest_alternative_tools, lines 540-548: current_step is 0-based and is
\* clamped to the last subtask; positions of the model are 1-based.
suggest_alternative_tools(context) ==
    LET subtasks == context.execution_plan.subtasks
        current_subtask_idx == Min(context.current_step, Len(subtasks) - 1)
    IN  IF current_subtask_idx >= 0 THEN subtasks[current_subtask_idx + 1].tools ELSE << >>

\* An error message is the sequence of its words.  str.lower() by what it
\* does to the words of the model.
lower_identity(word) == word

lower(word) ==
    CASE word = "Connection" -> "connection"
      [] word = "TIMEOUT"    -> "timeout"
      [] word = "Pipe"       -> "pipe"
      [] OTHER               -> word

\* `keyword in error_str.lower()`
Contains(error_str, keyword) == \E k \in 1..Len(error_str) : lower(error_str[k]) = keyword

RecoveryAction(action, reason, alternative_tools, retry_count) ==
    [action |-> action, reason |-> reason, alternative_tools |-> alternative_tools,
     retry_count |-> retry_count]

\* recover_from_error, lines 429-460.
recover_from_error(error, context) ==
    IF Contains(error, "timeout")
    THEN RecoveryAction("retry", "Timeout occurred, attempting retry with longer timeout",
                        << >>, 1)
    ELSE IF Contains(error, "connection") \/ Contains(error, "pipe")
    THEN RecoveryAction("reconnect", "Connection issue detected, attempting to reconnect",
                        << >>, 1)
    ELSE IF Contains(error, "access denied") \/ Contains(error, "permission")
    THEN RecoveryAction("switch_approach", "Permission denied, trying alternative approach",
                        suggest_alternative_tools(context), 0)
    ELSE RecoveryAction("switch_approach", "General error occurred, trying alternative approach",
                        suggest_alternative_tools(context), 0)

Analysis(success, findings, conclusions, next_steps, confidence) ==
    [success |-> success, findings |-> findings, conclusions |-> conclusions,
     next_steps |-> next_steps, confidence |-> confidence]

\* _get_next_subtask, lines 498-501, as the 1-based position of the subtask
\* whose description is returned.
get_next_subtask(context) ==
    Min(context.current_step + 1, Len(context.execution_plan.subtasks) - 1) + 1

\* _analyze_with_rules, lines 125-174; a formatted string is its fixed text
\* and the position of the subtask it names.
analyze_with_rules(result, context) ==
    LET subtasks == context.execution_plan.subtasks
        current_subtask_idx == Min(context.current_step, Len(subtasks) - 1)
        named(text, pos) == [text |-> text, subtask |-> pos]
    IN  IF result.success
        THEN IF current_subtask_idx >= 0
             THEN Analysis(TRUE, << "success" >>,
                           << named("partially complete", current_subtask_idx + 1) >>,
                           IF is_subtask_complete(subtasks[current_subtask_idx + 1], context)
                           THEN << named("Move to next subtask", get_next_subtask(context)) >>
                           ELSE << named("Continue current subtask", current_subtask_idx + 1) >>,
                           Rat(4, 5))
             ELSE Analysis(TRUE, << "success" >>, << >>, << >>, Rat(4, 5))
        ELSE Analysis(FALSE, << "error" >>,
                      << named("Tool execution failed, need to adjust approach", 0) >>,
                      << named("Attempt recovery or alternative approach", 0) >>,
                      Rat(3, 10))

\* _attempt_recovery, lines 511-516: reads the subtask at
\* min(current_step, len - 1) when that index is not negative, and logs.
attempt_recovery(context) == context

\* _modify_plan, lines 525-527: logs.
modify_plan(context) == context

\* A recovery that rewinds the cursor to the start of the plan.
adjust_plan_rewinding(decision, context) ==
    IF decision.action = "recover" THEN [context EXCEPT !.current_step = 0]
    ELSE IF decision.action = "finalize" THEN [context EXCEPT !.state = "completed"]
    ELSE IF decision.action = "abort" THEN [context EXCEPT !.state = "failed"]
    ELSE context

\* adjust_plan, lines 399-416: the context it leaves; it returns None, and
\* whatever is raised inside is logged by its handler.
adjust_plan(decision, context) ==
    IF decision.action = "recover" THEN attempt_recovery(context)
    ELSE IF decision.action = "adjust" THEN modify_plan(context)
    ELSE IF decision.action = "continue" THEN context
    ELSE IF decision.action = "finalize" THEN [context EXCEPT !.state = "completed"]
    ELSE IF decision.action = "abort" THEN [context EXCEPT !.state = "failed"]
    ELSE context

(***************************************************************************)
(* ReasoningEngine, LLM paths.  The behaviours of the language model are   *)
(* those of the planner; an object is the JSON dict of the reply, with     *)
(* tagged values: str, bool, num, list, or bad (a value the Decision or    *)
(* Analysis model refuses).                                                *)
(***************************************************************************)
Bool(b) == [t |-> "bool", v |-> b]
Num(x) == [t |-> "num", v |-> x]

ReasoningObjects ==
    { << >>,
      [next_action |-> Str("abort"), reasoning |-> Str("give up"), confidence |-> Num(Rat(9, 10))],
      [next_action |-> Str("finalize")],
      [next_action |-> Bad],
      [confidence |-> Bad] }

AnalysisObjects ==
    { << >>,
      [success |-> Bool(FALSE), findings |-> List(<< "f1" >>), insights |-> List(<< "i1" >>)],
      [next_steps |-> List(<< "n1" >>)],
      [success |-> Bad],
      [findings |-> Bad] }

FailingReplies == { [kind |-> k] : k \in {"raise", "no_content", "no_json", "non_object"} }

ReasoningReplies == FailingReplies \cup { [kind |-> "object", json |-> o] : o \in ReasoningObjects }

AnalysisReplies == FailingReplies \cup { [kind |-> "object", json |-> o] : o \in AnalysisObjects }

\* ResponseParser.parse_reasoning: None, or the dict (the keys make_decision
\* reads).
parse_reasoning(llm) ==
    IF llm.kind \in {"no_json", "non_object"}
    THEN None
    ELSE [next_action |-> Get(llm.json, "next_action", Str("continue")),
          reasoning |-> Get(llm.json, "reasoning", Str("")),
          confidence |-> Get(llm.json, "confidence", Num(Rat(4, 5)))]

\* A reply that is treated as parsed although nothing was parsed from it.
make_decision_with_llm_default(evaluation, context, llm) ==
    IF llm.kind \in {"raise", "no_content"}
    THEN make_decision_with_rules(evaluation, context)
    ELSE Decision("continue", "", Rat(4, 5), << >>)

\* _make_decision_with_llm, lines 274-324.
make_decision_with_llm(evaluation, context, llm) ==
    IF llm.kind \in {"raise", "no_content"}
    THEN make_decision_with_rules(evaluation, context)
    ELSE LET reasoning_dict == parse_reasoning(llm)
         IN  IF reasoning_dict = None
             THEN make_decision_with_rules(evaluation, context)
             ELSE IF \/ reasoning_dict.next_action.t # "str"
                     \/ reasoning_dict.reasoning.t # "str"
                     \/ reasoning_dict.confidence.t # "num"
             THEN make_decision_with_rules(evaluation, context)
             ELSE Decision(reasoning_dict.next_action.v, reasoning_dict.reasoning.v,
                           reasoning_dict.confidence.v, << >>)

make_decision(evaluation, context, use_llm, llm) ==
    IF use_llm
    THEN make_decision_with_llm(evaluation, context, llm)
    ELSE make_decision_with_rules(evaluation, context)

\* ResponseParser.parse_result_analysis: None, or the dict.
parse_result_analysis(llm) ==
    IF llm.kind \in {"no_json", "non_object"}
    THEN None
    ELSE [success |-> Get(llm.json, "success", Bool(TRUE)),
          findings |-> Get(llm.json, "findings", List(<< >>)),
          errors |-> Get(llm.json, "errors", List(<< >>)),
          next_steps |-> Get(llm.json, "next_steps", List(<< >>)),
          insights |-> Get(llm.json, "insights", List(<< >>))]

\* _analyze_with_llm, lines 57-112.
analyze_with_llm(result, context, llm) ==
    IF llm.kind \in {"raise", "no_content"}
    THEN analyze_with_rules(result, context)
    ELSE LET analysis_dict == parse_result_analysis(llm)
         IN  IF analysis_dict = None
             THEN analyze_with_rules(result, context)
             ELSE IF \/ analysis_dict.success.t # "bool"
                     \/ analysis_dict.findings.t # "list"
                     \/ analysis_dict.insights.t # "list"
                     \/ analysis_dict.next_steps.t # "list"
             THEN analyze_with_rules(result, context)
             ELSE Analysis(analysis_dict.success.v, analysis_dict.findings.v,
                           analysis_dict.insights.v, analysis_dict.next_steps.v, Rat(4, 5))

analyze_result(result, context, use_llm, llm) ==
    IF use_llm
    THEN analyze_with_llm(result, context, llm)
    ELSE analyze_with_rules(result, context)

(***************************************************************************)
(* ToolRegistry and ToolExecutor.                                          *)
(*                                                                         *)
(* A registered tool is its metadata and what its function does when it is *)
(* called: "returns" or "raises".  A call is a tool name and the set of    *)
(* keys of its arguments dict.                                             *)
(***************************************************************************)
Parameter(name, required) == [name |-> name, required |-> required]

ToolRegistry ==
    [ping         |-> [parameters |-> {}, destructive |-> FALSE,
                       requires_approval |-> FALSE, function |-> "returns"],
     read_memory  |-> [parameters |-> {Parameter("address", TRUE), Parameter("size", FALSE)},
                       destructive |-> FALSE, requires_approval |-> FALSE,
                       function |-> "returns"],
     write_memory |-> [parameters |-> {Parameter("address", TRUE)}, destructive |-> TRUE,
                       requires_approval |-> FALSE, function |-> "returns"],
     patch        |-> [parameters |-> {Parameter("address", TRUE)}, destructive |-> TRUE,
                       requires_approval |-> TRUE, function |-> "returns"],
     crash        |-> [parameters |-> {}, destructive |-> FALSE,
                       requires_approval |-> FALSE, function |-> "raises"]]

ToolCall(name, arguments) == [name |-> name, arguments |-> arguments]

\* The calls of the model: valid ones, an undeclared argument, a missing
\* required argument, a denied and an approved destructive tool, a tool that
\* raises, an unknown tool, and arguments with a key named like execute's
\* own first parameter.
ToolCalls ==
    { ToolCall("ping", {}),
      ToolCall("ping", {"bogus"}),
      ToolCall("read_memory", {"address"}),
      ToolCall("read_memory", {"size"}),
      ToolCall("write_memory", {"address"}),
      ToolCall("patch", {"address"}),
      ToolCall("crash", {}),
      ToolCall("nope", {}),
      ToolCall("ping", {"tool_name"}) }

\* ToolRegistry.validate_parameters, lines 177-192.
validate_parameters(tool_name, params) ==
    IF tool_name \notin DOMAIN ToolRegistry
    THEN FALSE
    ELSE LET metadata == ToolRegistry[tool_name]
         IN  /\ \A param \in metadata.parameters : param.required => param.name \in params
             /\ \A param_name \in params :
                    param_name \in { param.name : param \in metadata.parameters }

\* ToolExecutor.check_permissions, lines 257-263.
check_permissions_allow_all(tool_name) == tool_name \in DOMAIN ToolRegistry

check_permissions(tool_name) ==
    IF tool_name \notin DOMAIN ToolRegistry
    THEN FALSE
    ELSE \/ ~ToolRegistry[tool_name].destructive
         \/ ToolRegistry[tool_name].requires_approval

\* A ToolResult; error is None or the message, a formatted string kept as
\* its fixed text and the tool name formatted into it.
ToolResult(success, tool_name, error) ==
    [success |-> success, tool_name |-> tool_name, error |-> error]

ErrorMsg(text, tool_name) == [text |-> text, tool_name |-> tool_name]

\* ToolExecutor.execute, lines 41-102: the ToolResult returned and whether
\* the tool's function was called.  execute_async (lines 115-176) has the
\* same steps.
execute(tool_name, kwargs) ==
    IF ~validate_parameters(tool_name, kwargs)
    THEN [ret |-> ToolResult(FALSE, tool_name, ErrorMsg("invalid parameters for tool", tool_name)),
          called |-> FALSE]
    ELSE IF ~check_permissions(tool_name)
    THEN [ret |-> ToolResult(FALSE, tool_name, ErrorMsg("Permission denied for tool", tool_name)),
          called |-> FALSE]
    ELSE IF tool_name \notin DOMAIN ToolRegistry
    THEN [ret |-> ToolResult(FALSE, tool_name, ErrorMsg("Tool not found", tool_name)),
          called |-> FALSE]
    ELSE IF ToolRegistry[tool_name].function = "raises"
    THEN [ret |-> ToolResult(FALSE, tool_name, ErrorMsg("Error executing tool", tool_name)),
          called |-> TRUE]
    ELSE [ret |-> ToolResult(TRUE, tool_name, None), called |-> TRUE]

\* self.execute(call.name, **call.arguments): a key of the arguments named
\* tool_name or self collides with execute's own parameters, and Python
\* raises TypeError at the call, before execute's body is entered.
BindingRaises(call) == "tool_name" \in call.arguments \/ "self" \in call.arguments

TypeError == [type |-> "TypeError", msg |-> "got multiple values for argument 'tool_name'"]

(***************************************************************************)
(* State.                                                                  *)
(***************************************************************************)
VARIABLES
    p_request,       \* planner model: the request given to TaskPlanner.plan
    p_use_llm,       \* planner model: use_llm and ollama_client
    p_llm,           \* planner model: what the language model does
    p_plan,          \* planner model: the ExecutionPlan returned, None before the call
    status,          \* Agent.status
    stop_event,      \* Agent.stop_event (threading.Event)
    task_queue,      \* Agent.task_queue (queue.Queue), oldest first
    active_task,     \* Agent.active_task
    contexts,        \* ContextManager.contexts, in creation order (task_id = position)
    wpc,             \* where the thread that calls run() / execute() is
    caller,          \* who called execute: "run", "direct" or "none"
    request,         \* execute's argument
    execution_plan,  \* execute's local execution_plan (context.execution_plan)
    context,         \* task_id of execute's local context, 0 when there is none
    si,              \* _execute_plan: position in context.execution_plan.subtasks
    ti,              \* _execute_plan: position in subtask.tools
    result,          \* _execute_plan: the ToolResult of the last tool call
    exc,             \* the exception being propagated, NoExc when there is none
    report,          \* the AnalysisReport execute is returning
    spc,             \* where the thread that calls stop() is
    submitted,       \* number of submit_task calls made
    stops,           \* number of stop() calls completed
    runs,            \* number of run() calls started
    directs,         \* number of direct execute() calls started
    started,         \* history: tickets of the requests run() passed to execute, in order
    cleared,         \* history: tickets of the requests stop() removed from the queue
    invoked,         \* history: tool invocations of the current execute
    plan_exit,       \* history: how _execute_plan ended in the current execute
    first_exc,       \* history: the exception first raised inside _execute_plan's loop
    stop_seen,       \* history: stop_event was set at some moment of this _execute_plan
    stop_in_run,     \* history: stop() has set the event during the run() call in progress
    e_op,            \* engine model: the ReasoningEngine method under study, "idle" when none
    e_context,       \* engine model: the context argument
    e_arg,           \* engine model: the method's other argument (subtask, result, error or evaluation)
    e_llm,           \* engine model: use_llm and what the language model does
    e_outs,          \* engine model: the values returned by the calls made so far, in order
    x_mode,          \* executor model: "single", "batch" or "batch_async", "idle" when none
    x_calls,         \* executor model: the list of ToolCalls
    x_pos,           \* executor model: execute_batch's position in calls
    x_results,       \* executor model: results / gathered outcomes by position
    x_out,           \* executor model: what the method returned or raised, None before
    x_called,        \* executor model: positions of the calls whose tool function was called
    stop_at_call,    \* history: the stop flag was set when the execute call in progress was made
    g_plan,          \* gating model: the subtasks of the plan, None when idle
    g_k,             \* gating model: the subtask whose tools have just been run
    g_history,       \* gating model: the history when the subtasks after g_k are reached
    g_checked,       \* gating model: _check_dependencies_satisfied for the subtasks after g_k, in order
    b_handle,        \* bridge model: self.handle is a pipe handle (TRUE) or None (FALSE)
    b_pc,            \* bridge model: "idle", or send_command at "loop" or "request"
    b_attempt,       \* bridge model: iterations of the retry loop begun by this call
    b_requests,      \* bridge model: requests written to the pipe by this call
    b_last_error,    \* bridge model: last_error
    b_out,           \* bridge model: what the last call returned or raised, None before
    b_calls,         \* bridge model: calls of send_command made
    b_failed         \* bridge model: the last request of this call failed

planner_vars == << p_request, p_use_llm, p_llm, p_plan >>

agent_vars ==
    << status, stop_event, task_queue, active_task, contexts, wpc, caller, request,
       execution_plan, context, si, ti, result, exc, report, spc, submitted, stops,
       runs, directs, started, cleared, invoked, plan_exit, first_exc, stop_seen,
       stop_in_run, stop_at_call >>

engine_vars == << e_op, e_context, e_arg, e_llm, e_outs >>

executor_vars == << x_mode, x_calls, x_pos, x_results, x_out, x_called >>

\* The variables of the models of single components, idle in the
\* orchestration model.
gating_vars == << g_plan, g_k, g_history, g_checked >>

bridge_vars ==
    << b_handle, b_pc, b_attempt, b_requests, b_last_error, b_out, b_calls, b_failed >>

unit_vars == << planner_vars, engine_vars, executor_vars, gating_vars, bridge_vars >>

vars == << unit_vars, agent_vars >>

NoExc == [type |-> "none", msg |-> ""]
NoPlan == ExecutionPlan("", << >>)
NoRequest == [request |-> {}, ticket |-> 0]
NoResult == [tool_name |-> "", success |-> FALSE]
NoReport == [source |-> "none", task_id |-> 0, success |-> FALSE, error |-> ""]

\* The requests submitted to the agent in the orchestration model.
AgentRequests == { {"function"}, {"analyze", "structure"} }

Range(seq) == { seq[k] : k \in 1..Len(seq) }

(***************************************************************************)
(* ContextManager.                                                         *)
(***************************************************************************)
\* create_context: the context is built PENDING, stored, and set RUNNING
\* before the call returns.
\* A context that is stored as it was built, without the update to RUNNING.
create_context_pending(ctxs) ==
    Append(ctxs, [state |-> "pending", history |-> << >>, current_step |-> 0,
                  intermediate_results |-> {}])

create_context(ctxs) ==
    Append(ctxs, [state |-> "running", history |-> << >>, current_step |-> 0,
                  intermediate_results |-> {}])

update_state(ctxs, task_id, state) ==
    [ctxs EXCEPT ![task_id].state = state]

\* get_active_contexts: the stored contexts whose state is PENDING or RUNNING.
get_active_contexts(ctxs) ==
    { task_id \in 1..Len(ctxs) : ctxs[task_id].state \in {"pending", "running"} }

(***************************************************************************)
(* Agent helpers.                                                          *)
(***************************************************************************)
\* _check_dependencies_satisfied: for each dependency id the FIRST subtask
\* of the plan with that id is looked up; the dependency holds when some
\* history step is successful and names one of that subtask's tools.
check_dependencies_satisfied_any(subtask, subtasks, history) ==
    \A d \in 1..Len(subtask.dependencies) :
        \E m \in 1..Len(subtasks) : subtasks[m].id = subtask.dependencies[d]

\* A check that accepts any successful step, whichever tool it names.
check_dependencies_satisfied_any_success(subtask, subtasks, history) ==
    \A d \in 1..Len(subtask.dependencies) :
        /\ \E m \in 1..Len(subtasks) : subtasks[m].id = subtask.dependencies[d]
        /\ \E h \in 1..Len(history) : history[h].success

check_dependencies_satisfied(subtask, subtasks, history) ==
    \A d \in 1..Len(subtask.dependencies) :
        LET dep_id == subtask.dependencies[d]
            same == { m \in 1..Len(subtasks) : subtasks[m].id = dep_id }
        IN  /\ same # {}
            /\ LET dep_subtask == subtasks[CHOOSE m \in same : \A n \in same : m <= n]
               IN  \E h \in 1..Len(history) :
                       /\ history[h].tool_name \in Range(dep_subtask.tools)
                       /\ history[h].success

\* str(e) as execute's handler takes it (KeyError prints the repr of its key).
str(e) == e.msg

AttributeError == [type |-> "AttributeError", msg |-> "module 'time' has no attribute 'datetime'"]
KeyError == [type |-> "KeyError", msg |-> "'TaskState'"]
SynthesisError == [type |-> "Exception", msg |-> "synthesis failed"]

\* The synthetic report of execute's handler (lines 111-120).
error_report_no_error(e) ==
    [source |-> "handler", task_id |-> 0, success |-> FALSE, error |-> ""]

error_report(e) ==
    [source |-> "handler", task_id |-> 0, success |-> FALSE, error |-> str(e)]

\* An execute that starts by clearing the stop flag, as run() does.
stop_event_in_execute_cleared(is_set) == FALSE

\* What execute (lines 66-126) does to the stop flag: nothing, it is only
\* read at line 216.
stop_event_in_execute(is_set) == is_set

\* queue.Queue.get / clear of the underlying deque, each under the queue's mutex.
queue_peek(q) == q

queue_after_get(q) == Tail(q)

queue_clear_one(q) == IF q = << >> THEN q ELSE Tail(q)

queue_clear(q) == << >>

Tickets(q) == { q[k].ticket : k \in 1..Len(q) }

SubtaskLoop == {"ex_subtask", "ex_tool", "ex_call", "ex_inflight", "ex_step"}
InExecutePlan == SubtaskLoop \cup {"ex_plan_except"}
InExecute == InExecutePlan \cup {"ex_begin", "ex_plan", "ex_create", "ex_synth", "ex_except", "ex_finally"}
InRun == {"run_clear", "run_while", "run_get", "run_done", "run_finally"}

\* run() is between its first line and the end of its finally block.
RunInProgress == wpc \in InRun \/ (wpc \in InExecute /\ caller = "run")

(***************************************************************************)
(* Initial states.                                                         *)
(***************************************************************************)
AgentInit ==
    /\ status = "stopped"
    /\ stop_event = FALSE
    /\ task_queue = << >>
    /\ active_task = NoRequest
    /\ contexts = << >>
    /\ wpc = "idle"
    /\ caller = "none"
    /\ request = NoRequest
    /\ execution_plan = NoPlan
    /\ context = 0
    /\ si = 0
    /\ ti = 0
    /\ result = NoResult
    /\ exc = NoExc
    /\ report = NoReport
    /\ spc = "idle"
    /\ submitted = 0
    /\ stops = 0
    /\ runs = 0
    /\ directs = 0
    /\ started = << >>
    /\ cleared = {}
    /\ invoked = << >>
    /\ plan_exit = "none"
    /\ first_exc = NoExc
    /\ stop_seen = FALSE
    /\ stop_in_run = FALSE
    /\ stop_at_call = FALSE

PlannerIdle ==
    /\ p_request = {}
    /\ p_use_llm = FALSE
    /\ p_llm = [kind |-> "raise"]
    /\ p_plan = None

EngineIdle ==
    /\ e_op = "idle"
    /\ e_context = None
    /\ e_arg = None
    /\ e_llm = None
    /\ e_outs = << >>

ExecutorIdle ==
    /\ x_mode = "idle"
    /\ x_calls = << >>
    /\ x_pos = 0
    /\ x_results = << >>
    /\ x_out = None
    /\ x_called = {}

GatingIdle ==
    /\ g_plan = None
    /\ g_k = 0
    /\ g_history = << >>
    /\ g_checked = << >>

BridgeIdle ==
    /\ b_handle = FALSE
    /\ b_pc = "idle"
    /\ b_attempt = 0
    /\ b_requests = 0
    /\ b_last_error = None
    /\ b_out = None
    /\ b_calls = 0
    /\ b_failed = FALSE

Init == AgentInit /\ PlannerIdle /\ EngineIdle /\ ExecutorIdle /\ GatingIdle /\ BridgeIdle

(***************************************************************************)
(* Agent.submit_task and Agent.stop, each called from a thread of its own. *)
(***************************************************************************)
SubmitTask ==
    /\ submitted < MaxSubmits
    /\ \E r \in AgentRequests :
           task_queue' = Append(task_queue, [request |-> r, ticket |-> submitted + 1])
    /\ submitted' = submitted + 1
    /\ UNCHANGED << unit_vars, status, stop_event, active_task, contexts, wpc, caller,
                    request, execution_plan, context, si, ti, result, exc, report, spc,
                    stops, runs, directs, started, cleared, invoked, plan_exit,
                    first_exc, stop_seen, stop_in_run, stop_at_call >>

\* stop(), line 179: self.stop_event.set()
StopSetEvent ==
    /\ spc = "idle"
    /\ stops < MaxStops
    /\ stop_event' = TRUE
    /\ spc' = "status"
    /\ stop_seen' = (stop_seen \/ wpc \in SubtaskLoop)
    /\ stop_in_run' = (stop_in_run \/ RunInProgress)
    /\ UNCHANGED << unit_vars, status, task_queue, active_task, contexts, wpc, caller,
                    request, execution_plan, context, si, ti, result, exc, report,
                    submitted, stops, runs, directs, started, cleared, invoked,
                    plan_exit, first_exc, stop_at_call >>

\* stop(), line 180: self.status = AgentStatus.STOPPED
StopSetStatus ==
    /\ spc = "status"
    /\ status' = "stopped"
    /\ spc' = "clear"
    /\ UNCHANGED << unit_vars, stop_event, task_queue, active_task, contexts, wpc,
                    caller, request, execution_plan, context, si, ti, result, exc,
                    report, submitted, stops, runs, directs, started, cleared, invoked,
                    plan_exit, first_exc, stop_seen, stop_in_run, stop_at_call >>

\* stop(), lines 183-184: the queue is cleared under its mutex.
StopClearQueue ==
    /\ spc = "clear"
    /\ cleared' = cleared \cup Tickets(task_queue)
    /\ task_queue' = queue_clear(task_queue)
    /\ spc' = "idle"
    /\ stops' = stops + 1
    /\ UNCHANGED << unit_vars, status, stop_event, active_task, contexts, wpc, caller,
                    request, execution_plan, context, si, ti, result, exc, report,
                    submitted, runs, directs, started, invoked, plan_exit, first_exc,
                    stop_seen, stop_in_run, stop_at_call >>

(***************************************************************************)
(* Agent.run.                                                              *)
(***************************************************************************)
\* line 133: self.status = AgentStatus.RUNNING
RunStart ==
    /\ wpc = "idle"
    /\ runs < MaxRuns
    /\ runs' = runs + 1
    /\ status' = "running"
    /\ wpc' = "run_clear"
    /\ UNCHANGED << unit_vars, stop_event, task_queue, active_task, contexts, caller,
                    request, execution_plan, context, si, ti, result, exc, report, spc,
                    submitted, stops, directs, started, cleared, invoked, plan_exit,
                    first_exc, stop_seen, stop_in_run, stop_at_call >>

\* line 134: self.stop_event.clear()
RunClearEvent ==
    /\ wpc = "run_clear"
    /\ stop_event' = FALSE
    /\ wpc' = "run_while"
    /\ UNCHANGED << unit_vars, status, task_queue, active_task, contexts, caller,
                    request, execution_plan, context, si, ti, result, exc, report, spc,
                    submitted, stops, runs, directs, started, cleared, invoked,
                    plan_exit, first_exc, stop_seen, stop_in_run, stop_at_call >>

\* line 137: while not self.stop_event.is_set()
RunWhile ==
    /\ wpc = "run_while"
    /\ wpc' = IF stop_event THEN "run_finally" ELSE "run_get"
    /\ UNCHANGED << unit_vars, status, stop_event, task_queue, active_task, contexts,
                    caller, request, execution_plan, context, si, ti, result, exc,
                    report, spc, submitted, stops, runs, directs, started, cleared,
                    invoked, plan_exit, first_exc, stop_seen, stop_in_run, stop_at_call >>

\* lines 141-146 and 151-153: get(timeout=1.0); with an item, active_task is
\* set and execute is called; on queue.Empty the loop continues.
RunGet ==
    /\ wpc = "run_get"
    /\ IF task_queue # << >>
       THEN /\ request' = Head(task_queue)
            /\ task_queue' = queue_after_get(task_queue)
            /\ active_task' = Head(task_queue)
            /\ started' = Append(started, Head(task_queue).ticket)
            /\ caller' = "run"
            /\ wpc' = "ex_begin"
       ELSE /\ wpc' = "run_while"
            /\ UNCHANGED << request, task_queue, active_task, started, caller >>
    /\ UNCHANGED << unit_vars, status, stop_event, contexts, execution_plan, context,
                    si, ti, result, exc, report, spc, submitted, stops, runs, directs,
                    cleared, invoked, plan_exit, first_exc, stop_seen, stop_in_run, stop_at_call >>

\* lines 147-160: active_task = None, task_done(), sleep, next iteration.
RunTaskDone ==
    /\ wpc = "run_done"
    /\ active_task' = NoRequest
    /\ wpc' = "run_while"
    /\ UNCHANGED << unit_vars, status, stop_event, task_queue, contexts, caller,
                    request, execution_plan, context, si, ti, result, exc, report, spc,
                    submitted, stops, runs, directs, started, cleared, invoked,
                    plan_exit, first_exc, stop_seen, stop_in_run, stop_at_call >>

\* lines 161-164: finally: status = STOPPED; stop_event.set()
RunFinally ==
    /\ wpc = "run_finally"
    /\ status' = "stopped"
    /\ stop_event' = TRUE
    /\ wpc' = "idle"
    /\ stop_in_run' = FALSE
    /\ UNCHANGED << unit_vars, task_queue, active_task, contexts, caller, request,
                    execution_plan, context, si, ti, result, exc, report, spc,
                    submitted, stops, runs, directs, started, cleared, invoked,
                    plan_exit, first_exc, stop_seen, stop_at_call >>

(***************************************************************************)
(* Agent.execute and Agent._execute_plan.                                  *)
(***************************************************************************)
\* execute called directly (not from run) by the same thread.
DirectExecute ==
    /\ wpc = "idle"
    /\ directs < MaxDirect
    /\ directs' = directs + 1
    /\ \E r \in AgentRequests : request' = [request |-> r, ticket |-> 0]
    /\ caller' = "direct"
    /\ wpc' = "ex_begin"
    /\ stop_at_call' = stop_event
    /\ UNCHANGED << unit_vars, status, stop_event, task_queue, active_task, contexts,
                    execution_plan, context, si, ti, result, exc, report, spc,
                    submitted, stops, runs, started, cleared, invoked, plan_exit,
                    first_exc, stop_seen, stop_in_run >>

\* line 82: self.status = AgentStatus.RUNNING
ExecuteBegin ==
    /\ wpc = "ex_begin"
    /\ status' = "running"
    /\ wpc' = "ex_plan"
    /\ stop_event' = stop_event_in_execute(stop_event)
    /\ UNCHANGED << unit_vars, task_queue, active_task, contexts, caller,
                    request, execution_plan, context, si, ti, result, exc, report, spc,
                    submitted, stops, runs, directs, started, cleared, invoked,
                    plan_exit, first_exc, stop_seen, stop_in_run, stop_at_call >>

\* line 86: execution_plan = self.task_planner.plan(request); the Agent builds
\* its TaskPlanner with use_llm=True and a client (line 46).
ExecutePlanRequest ==
    /\ wpc = "ex_plan"
    /\ \E llm \in LLMBehaviours : execution_plan' = plan(request.request, TRUE, llm)
    /\ wpc' = "ex_create"
    /\ UNCHANGED << unit_vars, status, stop_event, task_queue, active_task, contexts,
                    caller, request, context, si, ti, result, exc, report, spc,
                    submitted, stops, runs, directs, started, cleared, invoked,
                    plan_exit, first_exc, stop_seen, stop_in_run, stop_at_call >>

\* line 90: context = self.context_manager.create_context(...); line 94 enters
\* _execute_plan.
ExecuteCreateContext ==
    /\ wpc = "ex_create"
    /\ contexts' = create_context(contexts)
    /\ context' = Len(contexts) + 1
    /\ si' = 1
    /\ wpc' = "ex_subtask"
    /\ stop_seen' = stop_event
    /\ UNCHANGED << unit_vars, status, stop_event, task_queue, active_task, caller,
                    request, execution_plan, ti, result, exc, report, spc, submitted,
                    stops, runs, directs, started, cleared, invoked, plan_exit,
                    first_exc, stop_in_run, stop_at_call >>

\* lines 206-212: the next subtask, skipped when its dependencies are not
\* satisfied; the end of the list ends _execute_plan normally.
PlanNextSubtask ==
    /\ wpc = "ex_subtask"
    /\ IF si > Len(execution_plan.subtasks)
       THEN /\ plan_exit' = "returned"
            /\ wpc' = "ex_synth"
            /\ UNCHANGED << si, ti >>
       ELSE IF ~check_dependencies_satisfied(execution_plan.subtasks[si],
                                             execution_plan.subtasks,
                                             contexts[context].history)
       THEN /\ si' = si + 1
            /\ UNCHANGED << wpc, ti, plan_exit >>
       ELSE /\ ti' = 1
            /\ wpc' = "ex_tool"
            /\ UNCHANGED << si, plan_exit >>
    /\ UNCHANGED << unit_vars, status, stop_event, task_queue, active_task, contexts,
                    caller, request, execution_plan, context, result, exc, report, spc,
                    submitted, stops, runs, directs, started, cleared, invoked,
                    first_exc, stop_seen, stop_in_run, stop_at_call >>

\* lines 215-223 and 273-274: the next tool of the subtask; the stop check;
\* after the last tool the cursor is advanced.
PlanNextTool ==
    /\ wpc = "ex_tool"
    /\ IF ti > Len(execution_plan.subtasks[si].tools)
       THEN /\ contexts' = [contexts EXCEPT ![context].current_step = @ + 1]
            /\ si' = si + 1
            /\ wpc' = "ex_subtask"
            /\ UNCHANGED plan_exit
       ELSE IF stop_event
       THEN /\ plan_exit' = "returned"
            /\ wpc' = "ex_synth"
            /\ UNCHANGED << contexts, si >>
       ELSE /\ wpc' = "ex_call"
            /\ UNCHANGED << contexts, si, plan_exit >>
    /\ UNCHANGED << unit_vars, status, stop_event, task_queue, active_task, caller,
                    request, execution_plan, context, ti, result, exc, report, spc,
                    submitted, stops, runs, directs, started, cleared, invoked,
                    first_exc, stop_seen, stop_in_run, stop_at_call >>

\* line 227: self.tool_executor.execute(tool_name, **tool_args) is entered.
PlanCallTool ==
    /\ wpc = "ex_call"
    /\ invoked' = Append(invoked, [subtask |-> si, tool |-> execution_plan.subtasks[si].tools[ti],
                                   stop_was_set |-> stop_seen])
    /\ wpc' = "ex_inflight"
    /\ UNCHANGED << unit_vars, status, stop_event, task_queue, active_task, contexts,
                    caller, request, execution_plan, context, si, ti, result, exc,
                    report, spc, submitted, stops, runs, directs, started, cleared,
                    plan_exit, first_exc, stop_seen, stop_in_run, stop_at_call >>

\* line 227: the executor returns a ToolResult (it never raises).
PlanToolReturns ==
    /\ wpc = "ex_inflight"
    /\ \E ok \in BOOLEAN :
           result' = [tool_name |-> execution_plan.subtasks[si].tools[ti], success |-> ok]
    /\ wpc' = "ex_step"
    /\ UNCHANGED << unit_vars, status, stop_event, task_queue, active_task, contexts,
                    caller, request, execution_plan, context, si, ti, exc, report, spc,
                    submitted, stops, runs, directs, started, cleared, invoked,
                    plan_exit, first_exc, stop_seen, stop_in_run, stop_at_call >>

\* lines 230-238: ExecutionStep(..., timestamp=time.datetime.now(), ...): the
\* module time has no attribute datetime, so building the step raises
\* AttributeError, which the handler of line 276 catches.
PlanBuildStep ==
    /\ wpc = "ex_step"
    /\ exc' = AttributeError
    /\ first_exc' = AttributeError
    /\ wpc' = "ex_plan_except"
    /\ UNCHANGED << unit_vars, status, stop_event, task_queue, active_task, contexts,
                    caller, request, execution_plan, context, si, ti, result, report,
                    spc, submitted, stops, runs, directs, started, cleared, invoked,
                    plan_exit, stop_seen, stop_in_run, stop_at_call >>

\* lines 276-279: the handler evaluates type.__dict__['TaskState'] before
\* update_state is called; the builtin type has no such key, so KeyError is
\* raised from inside the handler and leaves _execute_plan.
PlanExcept ==
    /\ wpc = "ex_plan_except"
    /\ exc' = KeyError
    /\ plan_exit' = "raised"
    /\ wpc' = "ex_except"
    /\ UNCHANGED << unit_vars, status, stop_event, task_queue, active_task, contexts,
                    caller, request, execution_plan, context, si, ti, result, report,
                    spc, submitted, stops, runs, directs, started, cleared, invoked,
                    first_exc, stop_seen, stop_in_run, stop_at_call >>

\* line 98: report = self.result_synthesizer.synthesize(context)
ExecuteSynthesize ==
    /\ wpc = "ex_synth"
    /\ \/ /\ \E ok \in BOOLEAN :
                 report' = [source |-> "synthesizer", task_id |-> context,
                            success |-> ok, error |-> ""]
          /\ wpc' = "ex_finally"
          /\ UNCHANGED exc
       \/ /\ exc' = SynthesisError
          /\ wpc' = "ex_except"
          /\ UNCHANGED report
    /\ UNCHANGED << unit_vars, status, stop_event, task_queue, active_task, contexts,
                    caller, request, execution_plan, context, si, ti, result, spc,
                    submitted, stops, runs, directs, started, cleared, invoked,
                    plan_exit, first_exc, stop_seen, stop_in_run, stop_at_call >>

\* lines 106-122: except Exception: status = ERROR; return the error report.
ExecuteExcept ==
    /\ wpc = "ex_except"
    /\ status' = "error"
    /\ report' = error_report(exc)
    /\ wpc' = "ex_finally"
    /\ UNCHANGED << unit_vars, stop_event, task_queue, active_task, contexts, caller,
                    request, execution_plan, context, si, ti, result, exc, spc,
                    submitted, stops, runs, directs, started, cleared, invoked,
                    plan_exit, first_exc, stop_seen, stop_in_run, stop_at_call >>

\* lines 123-126: finally: if status != ERROR: status = STOPPED; execute
\* returns to its caller (run drops the report, line 146) and its locals and
\* the history of this call are gone.
ExecuteFinally ==
    /\ wpc = "ex_finally"
    /\ status' = IF status # "error" THEN "stopped" ELSE status
    /\ wpc' = IF caller = "run" THEN "run_done" ELSE "idle"
    /\ caller' = "none"
    /\ request' = NoRequest
    /\ execution_plan' = NoPlan
    /\ context' = 0
    /\ si' = 0
    /\ ti' = 0
    /\ result' = NoResult
    /\ exc' = NoExc
    /\ report' = NoReport
    /\ invoked' = << >>
    /\ plan_exit' = "none"
    /\ first_exc' = NoExc
    /\ stop_seen' = FALSE
    /\ stop_at_call' = FALSE
    /\ UNCHANGED << unit_vars, stop_event, task_queue, active_task, contexts, spc,
                    submitted, stops, runs, directs, started, cleared, stop_in_run >>

(***************************************************************************)
(* The orchestration model.                                                *)
(***************************************************************************)
Worker ==
    \/ RunStart
    \/ RunClearEvent
    \/ RunWhile
    \/ RunGet
    \/ RunTaskDone
    \/ RunFinally
    \/ DirectExecute
    \/ ExecuteBegin
    \/ ExecutePlanRequest
    \/ ExecuteCreateContext
    \/ PlanNextSubtask
    \/ PlanNextTool
    \/ PlanCallTool
    \/ PlanToolReturns
    \/ PlanBuildStep
    \/ PlanExcept
    \/ ExecuteSynthesize
    \/ ExecuteExcept
    \/ ExecuteFinally

Stopper == StopSetEvent \/ StopSetStatus \/ StopClearQueue

Next == Worker \/ Stopper \/ SubmitTask

Spec == Init /\ [][Next]_vars

(***************************************************************************)
(* The planner on its own: TaskPlanner.plan applied to any request, with   *)
(* and without the language model, under every behaviour of the model.     *)
(***************************************************************************)
PlannerInit ==
    /\ AgentInit
    /\ GatingIdle
    /\ BridgeIdle
    /\ EngineIdle
    /\ ExecutorIdle
    /\ p_request \in Requests
    /\ p_use_llm \in BOOLEAN
    /\ p_llm \in LLMBehaviours
    /\ p_plan = None

PlannerPlan ==
    /\ p_plan = None
    /\ p_plan' = plan(p_request, p_use_llm, p_llm)
    /\ UNCHANGED << p_request, p_use_llm, p_llm, agent_vars, engine_vars, executor_vars,
                    gating_vars, bridge_vars >>

PlannerNext == PlannerPlan

PlannerSpec == PlannerInit /\ [][PlannerNext]_vars

\* The plan came from the rule path: the model was off, or _plan_with_llm
\* fell back to _plan_with_rules.
RulePlanned == p_plan # None /\ ~(p_use_llm /\ llm_plan_used(p_llm))

\* C1: whatever the request and whatever the language model does, plan
\* returns an ExecutionPlan with at least one subtask.
C1_PlanHasSubtask == p_plan # None => Len(p_plan.subtasks) >= 1

\* C10: in every plan of the rule-based planner each subtask depends only on
\* ids of subtasks placed before it in the plan, and never on its own id.
C10_RuleDependenciesEarlier ==
    RulePlanned =>
        \A i \in 1..Len(p_plan.subtasks) :
            \A d \in Range(p_plan.subtasks[i].dependencies) :
                /\ d # p_plan.subtasks[i].id
                /\ \E j \in 1..(i - 1) : p_plan.subtasks[j].id = d

C10_Witness ==
    /\ RulePlanned
    /\ p_use_llm
    /\ p_plan.task_type = "BREAKPOINT_DEBUGGING"
    /\ p_plan.subtasks[5].dependencies = << 4 >>

(***************************************************************************)
(* The ReasoningEngine on its own: one method applied to arguments drawn   *)
(* from bounded sets.                                                      *)
(***************************************************************************)
TaskStates == {"pending", "running", "paused", "completed", "failed", "cancelled"}

ExecutionStep(step_id, tool_name, success) ==
    [step_id |-> step_id, tool_name |-> tool_name, success |-> success]

ExecutionContext(state, history, current_step, subtasks, estimated_steps) ==
    [state |-> state, history |-> history, current_step |-> current_step,
     intermediate_results |-> {},
     execution_plan |-> [subtasks |-> subtasks, estimated_steps |-> estimated_steps]]

\* Sequences over S of length at most n.
SeqsUpTo(S, n) == UNION { [1..k -> S] : k \in 0..n }

\* Histories given by the success of their steps, step_id by position.
OutcomeHistories ==
    { [k \in 1..Len(o) |-> ExecutionStep(k, "ping", o[k])] : o \in SeqsUpTo(BOOLEAN, MaxHistory) }

\* Histories given by the tools called and their success.
ToolHistories ==
    { [k \in 1..Len(h) |-> ExecutionStep(k, h[k][1], h[k][2])] :
          h \in SeqsUpTo({"a", "b", "x"} \X BOOLEAN, MaxToolHistory) }

SubTaskSamples ==
    { SubTask(1, tools, << >>) :
          tools \in { << >>, << "a" >>, << "a", "b" >>, << "a", "b", "c" >>,
                      << "a", "b", "c", "d" >>, << "a", "a" >> } }

PlanSamples ==
    { << >>,
      << SubTask(1, << "a", "b" >>, << >>) >>,
      << SubTask(1, << "a", "b" >>, << >>), SubTask(2, << "x" >>, << 1 >>) >> }

ErrorWords ==
    { "Connection", "timeout", "TIMEOUT", "Pipe", "permission", "access denied", "failed" }

Errors == SeqsUpTo(ErrorWords, MaxWords)

\* Evaluations handed to make_decision that evaluate_state need not produce.
EvaluationSamples ==
    { StateEvaluation(st, pr, TRUE, is, << "rec" >>) :
          st \in TaskStates,
          pr \in { Rat(0, 1), Rat(1, 2), Rat(1, 1) },
          is \in { << >>, << Issue("Recent error in step", 1) >>,
                   << Issue("Recent error in step", 1), StuckIssue >>,
                   << StuckLiteral >> } }

RulesOnly == [use_llm |-> FALSE, reply |-> [kind |-> "raise"]]

\* The actions a Decision can carry: those the engine produces, and one that
\* only a language model can name.
DecisionActions == {"continue", "adjust", "recover", "finalize", "abort", "error", "retry"}

EngineInit ==
    /\ AgentInit
    /\ GatingIdle
    /\ BridgeIdle
    /\ PlannerIdle
    /\ ExecutorIdle
    /\ e_outs = << >>
    /\ \/ /\ e_op = "evaluate_state"
          /\ e_context \in { ExecutionContext(st, h, 0, << >>, n) :
                                 st \in TaskStates, h \in OutcomeHistories, n \in {0, 1, 3} }
          /\ e_arg = None
          /\ e_llm = RulesOnly
       \/ /\ e_op = "make_decision"
          /\ \/ /\ e_context \in { ExecutionContext(st, h, 0, << >>, 3) :
                                       st \in TaskStates, h \in OutcomeHistories }
                /\ e_arg = evaluate_state(e_context)
                /\ e_llm = RulesOnly
             \/ /\ e_context = ExecutionContext("running", << >>, 0, << >>, 3)
                /\ e_arg \in EvaluationSamples
                /\ e_llm \in [use_llm : BOOLEAN, reply : ReasoningReplies]
       \/ /\ e_op = "is_subtask_complete"
          /\ e_context \in { ExecutionContext("running", h, 0, << >>, 0) : h \in ToolHistories }
          /\ e_arg \in SubTaskSamples
          /\ e_llm = RulesOnly
       \/ /\ e_op = "recover_from_error"
          /\ e_context \in { ExecutionContext("running", << >>, c, p, Len(p)) :
                                 c \in 0..2, p \in PlanSamples }
          /\ e_arg \in Errors
          /\ e_llm = RulesOnly
       \/ /\ e_op = "adjust_plan"
          /\ e_context \in { ExecutionContext(st, h, c, p, Len(p)) :
                                 st \in TaskStates,
                                 h \in { << >>, << ExecutionStep(1, "a", FALSE) >> },
                                 c \in 0..2, p \in PlanSamples }
          /\ e_arg \in { Decision(a, "because", Rat(1, 2), << >>) : a \in DecisionActions }
          /\ e_llm = RulesOnly
       \/ /\ e_op = "analyze_result"
          /\ e_context \in { ExecutionContext("running", h, c, p, Len(p)) :
                                 h \in { << >>, << ExecutionStep(1, "a", TRUE) >> },
                                 c \in 0..2, p \in PlanSamples }
          /\ e_arg \in { [tool_name |-> "a", success |-> ok] : ok \in BOOLEAN }
          /\ e_llm \in [use_llm : BOOLEAN, reply : AnalysisReplies]

\* The value a call returns is appended to e_outs; the context is what the
\* method leaves of it.
EngineReturns(value) ==
    /\ Len(e_outs) < MaxCalls
    /\ e_outs' = Append(e_outs, value)
    /\ UNCHANGED << e_op, e_arg, e_llm, planner_vars, executor_vars, agent_vars, gating_vars, bridge_vars >>

EvaluateState ==
    /\ e_op = "evaluate_state"
    /\ EngineReturns(evaluate_state(e_context))
    /\ e_context' = context_after_evaluate_state(e_context)

MakeDecision ==
    /\ e_op = "make_decision"
    /\ EngineReturns(make_decision(e_arg, e_context, e_llm.use_llm, e_llm.reply))
    /\ UNCHANGED e_context

IsSubtaskComplete ==
    /\ e_op = "is_subtask_complete"
    /\ EngineReturns(is_subtask_complete(e_arg, e_context))
    /\ UNCHANGED e_context

RecoverFromError ==
    /\ e_op = "recover_from_error"
    /\ EngineReturns(recover_from_error(e_arg, e_context))
    /\ UNCHANGED e_context

AnalyzeResult ==
    /\ e_op = "analyze_result"
    /\ EngineReturns(analyze_result(e_arg, e_context, e_llm.use_llm, e_llm.reply))
    /\ UNCHANGED e_context

AdjustPlan ==
    /\ e_op = "adjust_plan"
    /\ EngineReturns(None)
    /\ e_context' = adjust_plan(e_arg, e_context)

EngineNext ==
    \/ EvaluateState
    \/ MakeDecision
    \/ IsSubtaskComplete
    \/ RecoverFromError
    \/ AnalyzeResult
    \/ AdjustPlan

EngineSpec == EngineInit /\ [][EngineNext]_vars

(***************************************************************************)
(* The dependency gate of _execute_plan on the plans of the rule           *)
(* templates: the tools of subtasks 1..g_k have been run with any          *)
(* outcomes, and the loop goes on to the subtasks after g_k.               *)
(***************************************************************************)
TemplateTypes ==
    { "DATA_STRUCTURE_ANALYSIS", "FUNCTION_ANALYSIS", "PATTERN_SEARCH",
      "BREAKPOINT_DEBUGGING", "COMPREHENSIVE_ANALYSIS" }

\* The tools of subtasks 1..k in the order the loops of lines 206 and 215
\* take them.
RECURSIVE ToolsUpTo(_, _)
ToolsUpTo(subtasks, k) ==
    IF k = 0 THEN << >> ELSE ToolsUpTo(subtasks, k - 1) \o subtasks[k].tools

GatingInit ==
    /\ AgentInit
    /\ PlannerIdle
    /\ EngineIdle
    /\ ExecutorIdle
    /\ BridgeIdle
    /\ \E task_type \in TemplateTypes :
           /\ g_plan = decompose_task(task_type)
           /\ g_k \in 1..(Len(g_plan) - 1)
           /\ LET tools == ToolsUpTo(g_plan, g_k)
              IN  \E ok \in [1..Len(tools) -> BOOLEAN] :
                      g_history = [i \in 1..Len(tools) |-> ExecutionStep(i, tools[i], ok[i])]
    /\ g_checked = << >>

\* agent.py, lines 206-212: the next subtask is reached and its dependencies
\* are checked; a subtask whose check fails is skipped (`continue`) with the
\* history as it was, and the loop reaches the one after it.
GateNextSubtask ==
    /\ g_plan # None
    /\ g_k + Len(g_checked) < Len(g_plan)
    /\ IF g_checked = << >> THEN TRUE ELSE ~g_checked[Len(g_checked)]
    /\ g_checked' = Append(g_checked,
                           check_dependencies_satisfied(g_plan[g_k + Len(g_checked) + 1],
                                                        g_plan, g_history))
    /\ UNCHANGED << g_plan, g_k, g_history, planner_vars, engine_vars, executor_vars,
                    bridge_vars, agent_vars >>

GatingNext == GateNextSubtask

GatingSpec == GatingInit /\ [][GatingNext]_vars

(***************************************************************************)
(* The fallback from the language model to the rules, for the three        *)
(* operations that have one: plan, make_decision and analyze_result.       *)
(***************************************************************************)
FallbackInit ==
    \/ PlannerInit
    \/ EngineInit /\ e_op \in {"make_decision", "analyze_result"}

FallbackNext == PlannerPlan \/ MakeDecision \/ AnalyzeResult

FallbackSpec == FallbackInit /\ [][FallbackNext]_vars

(***************************************************************************)
(* The ToolExecutor on its own: execute on one call, execute_batch and     *)
(* execute_batch_async on a list of calls.                                 *)
(***************************************************************************)
Returned(results) == [raised |-> FALSE, results |-> results]

Raised(e) == [raised |-> TRUE, exc |-> e]

ExecutorInit ==
    /\ AgentInit
    /\ GatingIdle
    /\ BridgeIdle
    /\ PlannerIdle
    /\ EngineIdle
    /\ \/ /\ x_mode = "single"
          /\ x_calls \in { << c >> : c \in { d \in ToolCalls : ~BindingRaises(d) } }
       \/ /\ x_mode \in {"batch", "batch_async"}
          /\ x_calls \in SeqsUpTo(ToolCalls, MaxBatch)
    /\ x_pos = 1
    /\ x_results = [k \in 1..Len(x_calls) |-> None]
    /\ x_out = None
    /\ x_called = {}

\* execute(tool_name, **kwargs), lines 30-102.
ExecuteOne ==
    /\ x_mode = "single"
    /\ x_out = None
    /\ LET r == execute(x_calls[1].name, x_calls[1].arguments)
       IN  /\ x_out' = Returned(<< r.ret >>)
           /\ x_called' = IF r.called THEN {1} ELSE {}
    /\ UNCHANGED << x_mode, x_calls, x_pos, x_results, planner_vars, engine_vars, agent_vars, gating_vars, bridge_vars >>

\* execute_batch, lines 190-197: one iteration of the loop.
BatchStep ==
    /\ x_mode = "batch"
    /\ x_out = None
    /\ x_pos <= Len(x_calls)
    /\ IF BindingRaises(x_calls[x_pos])
       THEN /\ x_out' = Raised(TypeError)
            /\ UNCHANGED << x_results, x_called, x_pos >>
       ELSE LET r == execute(x_calls[x_pos].name, x_calls[x_pos].arguments)
            IN  /\ x_results' = [x_results EXCEPT ![x_pos] = r.ret]
                /\ x_called' = IF r.called THEN x_called \cup {x_pos} ELSE x_called
                /\ x_pos' = x_pos + 1
                /\ UNCHANGED x_out
    /\ UNCHANGED << x_mode, x_calls, planner_vars, engine_vars, agent_vars, gating_vars, bridge_vars >>

\* execute_batch, line 199: return results.
BatchReturn ==
    /\ x_mode = "batch"
    /\ x_out = None
    /\ x_pos > Len(x_calls)
    /\ x_out' = Returned(x_results)
    /\ UNCHANGED << x_mode, x_calls, x_pos, x_results, x_called, planner_vars, engine_vars,
                    agent_vars, gating_vars, bridge_vars >>

\* execute_batch_async, lines 211-215: one of the gathered tasks runs, in any
\* order; with return_exceptions=True an exception of the task is its
\* outcome.
AsyncTask ==
    /\ x_mode = "batch_async"
    /\ x_out = None
    /\ \E i \in 1..Len(x_calls) :
           /\ x_results[i] = None
           /\ IF BindingRaises(x_calls[i])
              THEN /\ x_results' = [x_results EXCEPT ![i] = [exception |-> TypeError]]
                   /\ UNCHANGED x_called
              ELSE LET r == execute(x_calls[i].name, x_calls[i].arguments)
                   IN  /\ x_results' = [x_results EXCEPT ![i] = r.ret]
                       /\ x_called' = IF r.called THEN x_called \cup {i} ELSE x_called
    /\ UNCHANGED << x_mode, x_calls, x_pos, x_out, planner_vars, engine_vars, agent_vars, gating_vars, bridge_vars >>

\* execute_batch_async, lines 217-232: the outcomes in the order of the
\* calls, an exception turned into a failed ToolResult.
AsyncGather ==
    /\ x_mode = "batch_async"
    /\ x_out = None
    /\ \A i \in 1..Len(x_calls) : x_results[i] # None
    /\ x_out' = Returned([i \in 1..Len(x_calls) |->
                             IF "exception" \in DOMAIN x_results[i]
                             THEN ToolResult(FALSE, x_calls[i].name,
                                             ErrorMsg(str(x_results[i].exception),
                                                      x_calls[i].name))
                             ELSE x_results[i]])
    /\ UNCHANGED << x_mode, x_calls, x_pos, x_results, x_called, planner_vars, engine_vars,
                    agent_vars, gating_vars, bridge_vars >>

ExecutorNext == ExecuteOne \/ BatchStep \/ BatchReturn \/ AsyncTask \/ AsyncGather

ExecutorSpec == ExecutorInit /\ [][ExecutorNext]_vars

(***************************************************************************)
(* CEBridgeClient (MCP_Server/mcp_cheatengine.py): send_command on the     *)
(* named pipe.  The handle is a pipe handle or None; what the peer does    *)
(* with one request is one of RequestOutcomes.                             *)
(***************************************************************************)
\* config.py, line 26: MAX_RETRIES: int = 2
MAX_RETRIES == 2

MaxCommands == 3

ConnectionError(msg) == [type |-> "ConnectionError", msg |-> msg]
UnicodeDecodeError == [type |-> "UnicodeDecodeError", msg |-> "invalid start byte"]
ResponseTypeError == [type |-> "TypeError", msg |-> "argument of type 'int' is not iterable"]

\* What WriteFile, ReadFile and the decoding of the body can come to:
\*   pipe_error    a WriteFile or ReadFile raises pywintypes.error
\*   short_header  fewer than 4 bytes of header are read
\*   oversized     the header announces more than 16 MiB
\*   invalid_json  the body is UTF-8 text that json.loads refuses
\*   not_utf8      the body is not UTF-8: bytes.decode raises
\*                 UnicodeDecodeError, which is no json.JSONDecodeError
\*   scalar_reply  the body is a JSON number or null: `'error' in response`
\*                 raises TypeError
\*   error_reply, result_reply, other_reply
\*                 a JSON object with "error", with "result", with neither
RequestOutcomes ==
    { "pipe_error", "short_header", "oversized", "invalid_json", "not_utf8",
      "scalar_reply", "error_reply", "result_reply", "other_reply" }

BridgeReturned(value) == [raised |-> FALSE, value |-> value]

BridgeInit ==
    /\ AgentInit
    /\ PlannerIdle
    /\ EngineIdle
    /\ ExecutorIdle
    /\ GatingIdle
    /\ BridgeIdle

\* send_command is called, lines 168-169; the handle is what the calls
\* before left.
BridgeSendCommand ==
    /\ b_pc = "idle"
    /\ b_calls < MaxCommands
    /\ b_calls' = b_calls + 1
    /\ b_pc' = "loop"
    /\ b_attempt' = 0
    /\ b_requests' = 0
    /\ b_last_error' = None
    /\ b_out' = None
    /\ b_failed' = FALSE
    /\ UNCHANGED << b_handle, planner_vars, engine_vars, executor_vars, gating_vars,
                    agent_vars >>

\* lines 171-174 and 233-236: the next iteration of the retry loop, with
\* connect() when there is no handle; after the last iteration last_error
\* is raised.
BridgeLoop ==
    /\ b_pc = "loop"
    /\ IF b_attempt >= MAX_RETRIES
       THEN /\ b_out' = Raised(IF b_last_error # None THEN b_last_error
                               ELSE ConnectionError("unknown communication error"))
            /\ b_pc' = "idle"
            /\ UNCHANGED << b_attempt, b_handle, b_failed >>
       ELSE /\ b_attempt' = b_attempt + 1
            /\ IF b_handle
               THEN /\ b_pc' = "request"
                    /\ b_failed' = FALSE
                    /\ UNCHANGED << b_handle, b_out >>
               ELSE \E connected \in BOOLEAN :
                        IF connected
                        THEN /\ b_handle' = TRUE
                             /\ b_pc' = "request"
                             /\ b_failed' = FALSE
                             /\ UNCHANGED b_out
                        ELSE /\ b_out' = Raised(ConnectionError("bridge is not running"))
                             /\ b_pc' = "idle"
                             /\ UNCHANGED << b_handle, b_failed >>
    /\ UNCHANGED << b_requests, b_last_error, b_calls, planner_vars, engine_vars,
                    executor_vars, gating_vars, agent_vars >>

\* close(), lines 240-247: the handle is closed (errors ignored) and reset.
close(handle) == FALSE

\* lines 176-231: one request is written and its response read and decoded.
BridgeRequest ==
    /\ b_pc = "request"
    /\ b_requests' = b_requests + 1
    /\ \E outcome \in RequestOutcomes :
           CASE outcome = "pipe_error" ->
                  /\ b_handle' = close(b_handle)
                  /\ b_last_error' = ConnectionError("pipe communication failed")
                  /\ b_failed' = TRUE
                  /\ b_pc' = "loop"
                  /\ UNCHANGED b_out
             [] outcome = "short_header" ->
                  /\ b_handle' = close(b_handle)
                  /\ b_last_error' = ConnectionError("incomplete response header")
                  /\ b_failed' = TRUE
                  /\ b_pc' = "loop"
                  /\ UNCHANGED b_out
             [] outcome = "oversized" ->
                  /\ b_handle' = close(b_handle)
                  /\ b_out' = Raised(ConnectionError("response too large"))
                  /\ b_failed' = TRUE
                  /\ b_pc' = "idle"
                  /\ UNCHANGED b_last_error
             [] outcome = "invalid_json" ->
                  /\ b_handle' = close(b_handle)
                  /\ b_last_error' = ConnectionError("invalid JSON")
                  /\ b_failed' = TRUE
                  /\ b_pc' = "loop"
                  /\ UNCHANGED b_out
             [] outcome = "not_utf8" ->
                  /\ b_out' = Raised(UnicodeDecodeError)
                  /\ b_failed' = TRUE
                  /\ b_pc' = "idle"
                  /\ UNCHANGED << b_handle, b_last_error >>
             [] outcome = "scalar_reply" ->
                  /\ b_out' = Raised(ResponseTypeError)
                  /\ b_failed' = TRUE
                  /\ b_pc' = "idle"
                  /\ UNCHANGED << b_handle, b_last_error >>
             [] OTHER ->
                  /\ b_out' = BridgeReturned(outcome)
                  /\ b_pc' = "idle"
                  /\ UNCHANGED << b_handle, b_last_error, b_failed >>
    /\ UNCHANGED << b_attempt, b_calls, planner_vars, engine_vars, executor_vars,
                    gating_vars, agent_vars >>

BridgeNext == BridgeSendCommand \/ BridgeLoop \/ BridgeRequest

BridgeSpec == BridgeInit /\ [][BridgeNext]_vars

(***************************************************************************)
(* Properties of the orchestration model.                                  *)
(***************************************************************************)
Subtasks == execution_plan.subtasks

\* A dependency list as the specification reads it: every id names a subtask
\* of the plan one of whose tools has a successful step in the history.
DependenciesMet(subtask, subtasks, history) ==
    \A d \in Range(subtask.dependencies) :
        \E m \in 1..Len(subtasks) :
            /\ subtasks[m].id = d
            /\ \E h \in 1..Len(history) :
                   history[h].success /\ history[h].tool_name \in Range(subtasks[m].tools)

\* C2: execute leaves only by returning an AnalysisReport, and when an
\* exception reached its handler the report returned has success = False
\* and a non-empty error.
C2_ExecuteReturnsReport ==
    wpc = "ex_finally" =>
        /\ report.source \in {"synthesizer", "handler"}
        /\ exc # NoExc => (report.source = "handler" /\ ~report.success /\ report.error # "")

C2_Witness ==
    /\ wpc = "ex_finally"
    /\ plan_exit = "raised"
    /\ exc = KeyError
    /\ report.error = "'TaskState'"

\* C4: a tool of a subtask is being invoked only if the subtask's
\* dependencies are met, and a subtask reached with an unmet dependency is
\* left for the next one with no tool invoked and no exception raised.
C4_ToolOnlyWhenMet ==
    wpc \in {"ex_tool", "ex_call", "ex_inflight", "ex_step"} =>
        DependenciesMet(Subtasks[si], Subtasks, contexts[context].history)

C4_UnmetIsSkipped ==
    (/\ wpc = "ex_subtask"
     /\ si <= Len(Subtasks)
     /\ ~DependenciesMet(Subtasks[si], Subtasks, contexts[context].history))
    => \/ (wpc' = wpc /\ si' = si)
       \/ (wpc' = "ex_subtask" /\ si' = si + 1 /\ exc' = NoExc /\ invoked' = invoked)

C4_DependencyGating == [](C4_ToolOnlyWhenMet) /\ [][C4_UnmetIsSkipped]_vars

C4_Witness ==
    /\ wpc = "ex_inflight"
    /\ si = 2
    /\ Subtasks[1].dependencies = << 2 >>
    /\ Subtasks[1].tools # << >>
    /\ Len(invoked) = 1
    /\ invoked[1].subtask = 2

\* C5: when the stop flag was set during _execute_plan (a call whose stop
\* check had passed counts as in flight), _execute_plan ends by returning,
\* and execute returns the report synthesized from the context.
C5_StopEndsPlanByReturn ==
    /\ (stop_seen /\ plan_exit # "none") => plan_exit = "returned"
    /\ (stop_seen /\ wpc = "ex_finally" /\ exc # SynthesisError)
           => (report.source = "synthesizer" /\ report.task_id = context)

\* C6: when an exception was raised inside the subtask/tool loop, the
\* context is FAILED afterwards and that same exception leaves _execute_plan.
C6_FatalMarksFailedAndReraises ==
    plan_exit = "raised" =>
        /\ contexts[context].state = "failed"
        /\ exc = first_exc

\* C7: the requests run() starts are started one at a time, each at most
\* once and in the order of their submission; while one is executing it is
\* the last one dequeued, and none is dequeued before it has completed.
C7_SerialInOrder ==
    /\ \A i, j \in 1..Len(started) : i < j => started[i] < started[j]
    /\ active_task # NoRequest =>
           (started # << >> /\ active_task.ticket = started[Len(started)])
    /\ (wpc \in InExecute /\ caller = "run") => active_task = request
    /\ wpc = "run_get" => active_task = NoRequest

C7_Witness ==
    /\ Len(started) = 2
    /\ wpc = "ex_inflight"
    /\ caller = "run"
    /\ request.ticket = 2

\* C8: a request that was in the queue when stop() cleared it is never
\* passed to execute.
C8_ClearedNeverStarted == cleared \cap Range(started) = {}

C8_Witness ==
    /\ cleared = {1}
    /\ started = << 2 >>
    /\ wpc = "ex_inflight"

\* C9: after stop() has set the event while run() is in progress, also while
\* run() is starting up, run() eventually exits with status STOPPED.
C9_StopIsObserved ==
    stop_in_run ~> (~RunInProgress /\ status = "stopped")

\* Every thread keeps running: the thread in run()/execute() (every call it
\* makes returns) and the thread in stop().
FairSpec == Spec /\ WF_vars(Worker) /\ WF_vars(Stopper)

(***************************************************************************)
(* Properties of the planner on single requests.                           *)
(***************************************************************************)
\* The request "analyze the structure at the target": of the eight patterns
\* of identify_intent its lower-cased text matches analyze, read ("get" in
\* "target") and structure.
AnalyzeTheStructureAtTheTarget == {"analyze", "read", "structure"}

\* C11: under rule-based planning the request "analyze the structure at the
\* target" is planned as DATA_STRUCTURE_ANALYSIS with exactly 4 subtasks,
\* the first of which uses get_process_info and has no dependencies.
C11_ScenarioIsStructureAnalysis ==
    (RulePlanned /\ p_request = AnalyzeTheStructureAtTheTarget) =>
        /\ p_plan.task_type = "DATA_STRUCTURE_ANALYSIS"
        /\ Len(p_plan.subtasks) = 4
        /\ "get_process_info" \in Range(p_plan.subtasks[1].tools)
        /\ p_plan.subtasks[1].dependencies = << >>

(***************************************************************************)
(* Properties of the ReasoningEngine.                                      *)
(***************************************************************************)
\* The history has at least 5 entries and its last 5 entries are failures.
LastFiveFailed(history) ==
    /\ Len(history) >= 5
    /\ \A k \in (Len(history) - 4)..Len(history) : ~history[k].success

\* C12: for a RUNNING context whose last 5 history entries are failures,
\* evaluate_state reports the stuck-loop issue and the rule-based
\* make_decision on that evaluation returns "recover" with confidence 0.5.
C12_StuckLoopRecovers ==
    (/\ e_op = "make_decision"
     /\ ~e_llm.use_llm
     /\ e_context.state = "running"
     /\ LastFiveFailed(e_context.history)
     /\ e_outs # << >>)
    => /\ InList(StuckIssue, e_arg.issues)
       /\ e_outs[1].action = "recover"
       /\ e_outs[1].confidence = Rat(1, 2)

\* The tools of the subtask that have a successful step in the history.
ToolsSucceeded(subtask, history) ==
    { t \in Range(subtask.tools) :
          \E k \in 1..Len(history) : history[k].success /\ history[k].tool_name = t }

\* C13: _is_subtask_complete is true exactly when the number of distinct
\* tools of the subtask with a successful history step is at least
\* max(1, floor(len(tools) / 2)).
C13_CompleteIffHalfTheTools ==
    (e_op = "is_subtask_complete" /\ e_outs # << >>) =>
        \A k \in 1..Len(e_outs) :
            e_outs[k] = (Cardinality(ToolsSucceeded(e_arg, e_context.history))
                             >= Max(1, Len(e_arg.tools) \div 2))

\* Tools [a,b,c,d]; a succeeded twice and nothing else did: not complete.
C13_Witness ==
    /\ e_op = "is_subtask_complete"
    /\ e_arg.tools = << "a", "b", "c", "d" >>
    /\ Len(e_context.history) = 2
    /\ \A k \in 1..2 : e_context.history[k].tool_name = "a" /\ e_context.history[k].success
    /\ e_outs = << FALSE >>

\* The message has the keyword in some spelling of upper and lower case.
Mentions(error, spellings) == \E k \in 1..Len(error) : error[k] \in spellings

\* The tool list of the subtask the context is at (the last one when
\* current_step is past the end), empty when the plan has no subtask.
CurrentSubtaskTools(ctx) ==
    LET subtasks == ctx.execution_plan.subtasks
    IN  IF subtasks = << >>
        THEN << >>
        ELSE subtasks[IF ctx.current_step + 1 <= Len(subtasks)
                      THEN ctx.current_step + 1
                      ELSE Len(subtasks)].tools

\* C14: a message with "timeout" in any case gives retry, also when it has
\* "connection", "pipe" or "permission"; otherwise "connection" or "pipe"
\* gives reconnect; every other message gives switch_approach with the
\* current subtask's tools as alternative_tools.
C14_FirstKeywordWins ==
    (e_op = "recover_from_error" /\ e_outs # << >>) =>
        \A k \in 1..Len(e_outs) :
            IF Mentions(e_arg, {"timeout", "TIMEOUT"})
            THEN e_outs[k].action = "retry"
            ELSE IF Mentions(e_arg, {"Connection", "Pipe"})
            THEN e_outs[k].action = "reconnect"
            ELSE /\ e_outs[k].action = "switch_approach"
                 /\ e_outs[k].alternative_tools = CurrentSubtaskTools(e_context)

C14_Witness ==
    /\ e_op = "recover_from_error"
    /\ e_arg = << "Connection", "TIMEOUT" >>
    /\ e_outs # << >>
    /\ e_outs[1].action = "retry"

\* C15: evaluate_state leaves the context as it was, and two calls on the
\* same context return the same progress and the same issues.
C15_ContextUnchanged == EvaluateState => e_context' = e_context

C15_SameEvaluation ==
    e_op = "evaluate_state" =>
        \A i, j \in 1..Len(e_outs) :
            /\ e_outs[i].progress = e_outs[j].progress
            /\ e_outs[i].issues = e_outs[j].issues

C19_StuckIssueExactly ==
    (e_op = "evaluate_state" /\ e_outs # << >>) =>
        (InList(StuckIssue, e_outs[1].issues) <=> LastFiveFailed(e_context.history))

\* The stuck-loop marker is among the issues.
HasStuckMarker(issues) == InList(StuckIssue, issues) \/ InList(StuckLiteral, issues)

\* The action of the priority table.
TableAction(evaluation) ==
    IF evaluation.current_state = "completed" THEN "finalize"
    ELSE IF evaluation.current_state = "failed" THEN "abort"
    ELSE IF HasStuckMarker(evaluation.issues) THEN "recover"
    ELSE IF evaluation.issues # << >> THEN "adjust"
    ELSE IF ~RatLess(evaluation.progress, Rat(1, 1)) THEN "finalize"
    ELSE "continue"

\* C20: the rule-based decision takes the action of the first applicable
\* rule of the table COMPLETED, FAILED, stuck-loop marker, other issues,
\* progress >= 1, otherwise; "adjust" carries evaluation.recommendations.
C20_PriorityTable ==
    (e_op = "make_decision" /\ ~e_llm.use_llm /\ e_outs # << >>) =>
        /\ e_outs[1].action = TableAction(e_arg)
        /\ e_outs[1].action = "adjust" => e_outs[1].next_steps = e_arg.recommendations

(***************************************************************************)
(* Properties of the fallback.                                             *)
(***************************************************************************)
\* The language-model call raised, returned no message.content, or returned
\* content from which no JSON object is parsed.
NoStructuredReply(llm) == llm.kind \in {"raise", "no_content", "no_json", "non_object"}

\* C18: when the language model gives no structured reply, plan,
\* make_decision and analyze_result return what the rule-based path returns
\* on the same arguments.
C18_FallbackIsRulePath ==
    /\ (p_plan # None /\ p_use_llm /\ NoStructuredReply(p_llm))
           => p_plan = plan_with_rules(p_request)
    /\ (e_op = "make_decision" /\ e_outs # << >> /\ e_llm.use_llm /\ NoStructuredReply(e_llm.reply))
           => e_outs[1] = make_decision_with_rules(e_arg, e_context)
    /\ (e_op = "analyze_result" /\ e_outs # << >> /\ e_llm.use_llm /\ NoStructuredReply(e_llm.reply))
           => e_outs[1] = analyze_with_rules(e_arg, e_context)

C18_Witness ==
    /\ e_op = "make_decision"
    /\ e_llm.use_llm
    /\ e_llm.reply.kind = "no_json"
    /\ e_outs # << >>
    /\ e_outs[1].action = "abort"
    /\ e_outs[1].next_steps = << "Abort execution and report error" >>

(***************************************************************************)
(* Properties of the ToolExecutor.                                         *)
(***************************************************************************)
\* The call passes the gates as the specification states them: the tool is
\* known, its required parameters are present, no argument is undeclared,
\* and it is not (destructive and not pre-approved).
PassesGates(call) ==
    /\ call.name \in DOMAIN ToolRegistry
    /\ LET tool == ToolRegistry[call.name]
           declared == { q.name : q \in tool.parameters }
           required == { q.name : q \in { r \in tool.parameters : r.required } }
       IN  /\ required \subseteq call.arguments
           /\ call.arguments \subseteq declared
           /\ ~(tool.destructive /\ ~tool.requires_approval)

FunctionRaises(call) ==
    call.name \in DOMAIN ToolRegistry /\ ToolRegistry[call.name].function = "raises"

\* C16: execute_batch and execute_batch_async return one ToolResult per
\* call, in the order of the calls; a call whose tool raises has
\* success = False at its position, and every call has the outcome it has
\* when executed alone.
C16_BatchIsolatesFailures ==
    (x_mode \in {"batch", "batch_async"} /\ x_out # None) =>
        /\ ~x_out.raised
        /\ Len(x_out.results) = Len(x_calls)
        /\ \A i \in 1..Len(x_calls) :
               /\ x_out.results[i].tool_name = x_calls[i].name
               /\ FunctionRaises(x_calls[i]) => ~x_out.results[i].success
               /\ ~BindingRaises(x_calls[i]) =>
                      x_out.results[i] = execute(x_calls[i].name, x_calls[i].arguments).ret

\* C17: execute calls the tool's function only for a call that passes the
\* gates; for any other call, and when the function raises, it returns a
\* ToolResult with success = False and a non-empty error, and for a call
\* that does not pass the gates the function is not called.
C17_ExecutorGating ==
    (x_mode = "single" /\ x_out # None) =>
        /\ ~x_out.raised
        /\ 1 \in x_called => PassesGates(x_calls[1])
        /\ (~PassesGates(x_calls[1]) \/ FunctionRaises(x_calls[1])) =>
               /\ ~x_out.results[1].success
               /\ x_out.results[1].error # None
               /\ x_out.results[1].error.text # ""
        /\ ~PassesGates(x_calls[1]) => x_called = {}

C17_Witness ==
    /\ x_mode = "single"
    /\ x_calls[1] = ToolCall("write_memory", {"address"})
    /\ x_out # None
    /\ x_called = {}
    /\ x_out.results[1].error.text = "Permission denied for tool"

(***************************************************************************)
(* Statements about the state of a context and the course of a plan.       *)
(***************************************************************************)
\* C21: adjust_plan changes nothing but the state of the context, and that
\* only for finalize (COMPLETED) and abort (FAILED); for continue, adjust,
\* recover and any other action the state, the plan, the history, the
\* cursor and the stored results are as before; and it returns None
\* without raising.
C21_AdjustPlanFrame ==
    [][e_op = "adjust_plan" =>
          /\ e_outs' = Append(e_outs, None)
          /\ e_context'.execution_plan = e_context.execution_plan
          /\ e_context'.history = e_context.history
          /\ e_context'.current_step = e_context.current_step
          /\ e_context'.intermediate_results = e_context.intermediate_results
          /\ e_context'.state = CASE e_arg.action = "finalize" -> "completed"
                                  [] e_arg.action = "abort" -> "failed"
                                  [] OTHER -> e_context.state]_vars

C21_Witness ==
    /\ e_op = "adjust_plan"
    /\ Len(e_outs) = 1
    /\ e_arg.action = "recover"
    /\ e_context.state = "running"
    /\ e_context.current_step = 2
    /\ e_context.history # << >>
    /\ Len(e_context.execution_plan.subtasks) = 2

TerminalStates == {"completed", "failed", "cancelled"}

C23_HistoryIsFaithfulLog ==
    (context # 0 /\ wpc \in {"ex_subtask", "ex_tool", "ex_synth", "ex_except", "ex_finally"}) =>
        LET history == contexts[context].history
        IN  /\ Len(history) = Len(invoked)
            /\ \A k \in 1..Len(history) :
                   /\ history[k].step_id = k
                   /\ history[k].tool_name = invoked[k].tool

\* C24: the cursor of the context is advanced once for every subtask whose
\* tool loop was entered, however that loop is left: after its last tool,
\* or early because the stop flag was found set.
C24_CursorAdvancesOnEveryExit ==
    [][(wpc = "ex_tool" /\ wpc' \in {"ex_subtask", "ex_synth"}) =>
           contexts'[context].current_step = contexts[context].current_step + 1]_vars

\* C26: failures are sticky for the rule-based decision: when the history
\* holds at least one failed step and the state is neither COMPLETED nor
\* FAILED, the rule-based decision on the evaluation of that context is
\* adjust or recover, however many later steps succeeded and however high
\* the progress is.
C26_FailuresAreSticky ==
    ( /\ e_op = "make_decision"
      /\ ~e_llm.use_llm
      /\ e_arg = evaluate_state(e_context)
      /\ \E k \in 1..Len(e_context.history) : ~e_context.history[k].success
      /\ e_context.state \notin {"completed", "failed"} ) =>
        \A i \in 1..Len(e_outs) : e_outs[i].action \in {"adjust", "recover"}

C26_Witness ==
    /\ e_op = "make_decision"
    /\ ~e_llm.use_llm
    /\ e_arg = evaluate_state(e_context)
    /\ e_context.state = "running"
    /\ Len(e_context.history) = 5
    /\ ~e_context.history[1].success
    /\ \A k \in 2..5 : e_context.history[k].success
    /\ e_arg.progress = Rat(1, 1)
    /\ Len(e_outs) = 1
    /\ e_outs[1].action = "adjust"

HasSuccessfulStep(subtask, history) ==
    \E h \in 1..Len(history) :
        history[h].success /\ history[h].tool_name \in Range(subtask.tools)

\* C28: in a plan of a rule template, when no tool of subtask k has a
\* successful step as subtask k+1 is reached, the dependency check fails
\* for subtask k+1 and for every subtask after it, so that none of their
\* tools is invoked.
C28_FailureCascade ==
    (g_plan # None /\ ~HasSuccessfulStep(g_plan[g_k], g_history)) =>
        \A i \in 1..Len(g_checked) : ~g_checked[i]

C28_Witness ==
    /\ g_plan = decompose_task("BREAKPOINT_DEBUGGING")
    /\ g_k = 3
    /\ \A h \in 1..3 : g_history[h].success
    /\ ~g_history[4].success
    /\ g_checked = << FALSE, FALSE >>

\* A direct call of execute made while the stop flag was set: the flag stays
\* set, no tool is invoked, and the call still plans, registers a new
\* context and returns a report.
C29_DirectExecuteInvokesNothing ==
    (caller = "direct" /\ stop_at_call) =>
        /\ stop_event
        /\ invoked = << >>
        /\ wpc \notin {"ex_call", "ex_inflight", "ex_step", "ex_plan_except"}
        /\ wpc = "ex_finally" =>
               /\ execution_plan # NoPlan
               /\ context = Len(contexts)
               /\ context > 0
               /\ report.source \in {"synthesizer", "handler"}

\* The stop flag is cleared by the first statements of run() only, and set
\* by stop() and by the exit of run().
C29_ClearedOnlyByRun ==
    /\ (stop_event /\ ~stop_event') => (wpc = "run_clear" /\ wpc' = "run_while")
    /\ (spc = "idle" /\ spc' = "status") => stop_event'
    /\ (wpc = "run_finally" /\ wpc' = "idle") => stop_event'

\* C29: the stop flag is only cleared at the start of run(); execute never
\* clears it, and stop() and the exit of run() set it.  So every direct
\* call of execute made while it is set invokes no tool, while it still
\* plans, registers a new context and returns a report.
C29_StopFlagOutlivesRun ==
    /\ []C29_DirectExecuteInvokesNothing
    /\ [][C29_ClearedOnlyByRun]_vars

C29_Witness ==
    /\ caller = "direct"
    /\ stop_at_call
    /\ runs = 1
    /\ wpc = "ex_finally"
    /\ execution_plan = plan_with_rules(request.request)
    /\ plan_exit = "returned"
    /\ report.source = "synthesizer"
    /\ invoked = << >>

\* C30: send_command makes at most MAX_RETRIES requests and ends by
\* returning a response or raising ConnectionError; after a failed request
\* the handle has been closed and reset; and a failed connect raises
\* ConnectionError at once, with no handle.
C30_SendCommandEnds ==
    /\ b_requests <= MAX_RETRIES
    /\ b_attempt <= MAX_RETRIES
    /\ b_out # None => (~b_out.raised \/ b_out.exc.type = "ConnectionError")
    /\ b_failed => ~b_handle
    /\ (b_out # None /\ b_out = Raised(ConnectionError("bridge is not running"))) => ~b_handle

====
